---------------------------- MODULE Spec2Model ----------------------------
(***************************************************************************)
(* Sequence generator (src/app.py): the two generator functions, the      *)
(* closed-form sums and the request handling of main().                    *)
(*                                                                         *)
(* Numbers.  The program computes with real-valued quantities.  They are   *)
(* modelled exactly, as elements of Q[dl]: polynomials in dl = 10^-11 with *)
(* rational coefficients,                                                  *)
(*     [num |-> <<c0, c1, ..., ck>>, den |-> q]  =  (c0 + c1*dl + ...)/q   *)
(* kept normalised (q > 0, gcd of q and the ci is 1, ck # 0 unless k = 0). *)
(* The dl powers make ratios such as 1 + 10^-11 representable, which lie   *)
(* inside the 1e-10 threshold of the geometric sum without being 1.        *)
(* Rounding and the finite range of IEEE doubles are not modelled.         *)
(***************************************************************************)
EXTENDS Integers, Sequences

VARIABLES pc, sequence_type, first_term, common_diff, common_ratio, num_terms,
          sequence, param_value, calls, out, ret

vars == <<pc, sequence_type, first_term, common_diff, common_ratio, num_terms,
          sequence, param_value, calls, out, ret>>

-----------------------------------------------------------------------------
(* Exact arithmetic *)

AbsInt(x) == IF x < 0 THEN -x ELSE x

MaxInt(x, y) == IF x < y THEN y ELSE x

RECURSIVE GCD(_, _)
GCD(x, y) == IF y = 0 THEN AbsInt(x) ELSE GCD(y, x % AbsInt(y))

RECURSIVE SeqGCD(_, _)
SeqGCD(s, g) == IF s = <<>> \/ g = 1 THEN g ELSE SeqGCD(Tail(s), GCD(Head(s), g))

RECURSIVE Trim(_)
Trim(s) == IF Len(s) > 1 /\ s[Len(s)] = 0 THEN Trim(SubSeq(s, 1, Len(s) - 1)) ELSE s

Coef(s, k) == IF k <= Len(s) THEN s[k] ELSE 0

Norm(cs, q) ==
    LET t == Trim(cs)
        g == SeqGCD(t, AbsInt(q))
        sg == IF q < 0 THEN -g ELSE g
    IN [num |-> [k \in 1..Len(t) |-> t[k] \div sg], den |-> q \div sg]

FromInt(i) == [num |-> <<i>>, den |-> 1]

Rat(p, q) == Norm(<<p>>, q)

Zero == FromInt(0)

One == FromInt(1)

Add(x, y) ==
    Norm([k \in 1..MaxInt(Len(x.num), Len(y.num)) |->
              Coef(x.num, k) * y.den + Coef(y.num, k) * x.den],
         x.den * y.den)

Neg(x) == [num |-> [k \in 1..Len(x.num) |-> -x.num[k]], den |-> x.den]

Sub(x, y) == Add(x, Neg(y))

RECURSIVE Conv(_, _, _, _)
Conv(s, t, k, i) ==
    IF i > k THEN 0
    ELSE Coef(s, i) * Coef(t, k + 1 - i) + Conv(s, t, k, i + 1)

Mul(x, y) ==
    IF x = Zero \/ y = Zero THEN Zero
    ELSE Norm([k \in 1..(Len(x.num) + Len(y.num) - 1) |-> Conv(x.num, y.num, k, 1)],
         x.den * y.den)

(* Exact quotient by a divisor with a single non-zero coefficient c*dl^(m-1)/q
   (every rational is one).  Division by zero is an error of the caller: see
   DivRaises. *)
Pivot(s) == CHOOSE m \in 1..Len(s) : s[m] # 0 /\ \A j \in 1..Len(s) : j # m => s[j] = 0

Div(x, y) ==
    LET m == Pivot(y.num)
        c == y.num[m]
    IN IF x = Zero THEN Zero
       ELSE Norm([k \in 1..(Len(x.num) - (m - 1)) |-> x.num[k + m - 1] * y.den],
                 x.den * c)

DivRaises(y) == y = Zero

(* The order of the reals on Q[dl]: coefficients are below 2^31 and dl is
   10^-11, so the lowest non-zero coefficient decides the sign. *)
RECURSIVE LowSign(_)
LowSign(s) ==
    IF s = <<>> THEN 0
    ELSE IF Head(s) > 0 THEN 1
    ELSE IF Head(s) < 0 THEN -1
    ELSE LowSign(Tail(s))

Sign(x) == LowSign(x.num)

Less(x, y) == Sign(Sub(x, y)) < 0

Abs(x) == IF Sign(x) < 0 THEN Neg(x) ELSE x

(* x ** i for an integer i >= 0; x ** 0 is 1 for every x, 0 included. *)
RECURSIVE Pow(_, _)
PowZeroOfZero(x, i) ==
    IF x = Zero THEN Zero
    ELSE IF i = 0 THEN One
    ELSE IF i % 2 = 0 THEN Mul(Pow(x, i \div 2), Pow(x, i \div 2))
    ELSE Mul(x, Pow(x, i - 1))

Pow(x, i) ==
    IF i = 0 THEN One
    ELSE IF i % 2 = 0 THEN LET h == Pow(x, i \div 2) IN Mul(h, h)
    ELSE Mul(x, Pow(x, i - 1))

(* Python's sum(): the terms added to 0 from left to right.  Addition in
   Q[dl] is exact and associative, so the fold is evaluated by halves, which
   keeps the evaluation depth logarithmic in the length. *)
RECURSIVE SumRange(_, _, _)
SumRange(s, lo, hi) ==
    IF lo > hi THEN Zero
    ELSE IF lo = hi THEN s[lo]
    ELSE LET mid == (lo + hi) \div 2
         IN Add(SumRange(s, lo, mid), SumRange(s, mid + 1, hi))

Sum(s) == SumRange(s, 1, Len(s))

Last(s) == s[Len(s)]

-----------------------------------------------------------------------------
(* The generators.  The for loop appends term i for i = 0 .. num_terms-1 in
   order; the sequence it leaves is written as the function of its index. *)

ArithTermFromOne(first_term_, common_diff_, i) ==
    Add(first_term_, Mul(FromInt(i + 1), common_diff_))

ArithTerm(first_term_, common_diff_, i) ==
    Add(first_term_, Mul(FromInt(i), common_diff_))

GeomTerm(first_term_, common_ratio_, i) ==
    Mul(first_term_, Pow(common_ratio_, i))

generate_arithmetic_sequence_AtLeastOne(first_term_, common_diff_, num_terms_) ==
    [k \in 1..MaxInt(1, num_terms_) |-> ArithTerm(first_term_, common_diff_, k - 1)]

generate_arithmetic_sequence_ShortByOne(first_term_, common_diff_, num_terms_) ==
    IF num_terms_ <= 1 THEN <<>>
    ELSE [k \in 1..(num_terms_ - 1) |-> ArithTerm(first_term_, common_diff_, k - 1)]

generate_arithmetic_sequence(first_term_, common_diff_, num_terms_) ==
    IF num_terms_ <= 0 THEN <<>>
    ELSE [k \in 1..num_terms_ |-> ArithTerm(first_term_, common_diff_, k - 1)]

generate_geometric_sequence_ShortByOne(first_term_, common_ratio_, num_terms_) ==
    IF num_terms_ <= 1 THEN <<>>
    ELSE [k \in 1..(num_terms_ - 1) |-> GeomTerm(first_term_, common_ratio_, k - 1)]

generate_geometric_sequence(first_term_, common_ratio_, num_terms_) ==
    IF num_terms_ <= 0 THEN <<>>
    ELSE [k \in 1..num_terms_ |-> GeomTerm(first_term_, common_ratio_, k - 1)]

-----------------------------------------------------------------------------
(* The closed-form sums of main() *)

\* 1e-10, the threshold of abs(param_value - 1) < 1e-10: ten times dl.
Eps == [num |-> <<0, 10>>, den |-> 1]

\* A bug that forgets the r = 1 branch.
NearOneNever(param_value_) == FALSE

NearOne(param_value_) == Less(Abs(Sub(param_value_, One)), Eps)

\* (num_terms / 2) * (2 * first_term + (num_terms - 1) * param_value), with
\* Python 3's true division.
ArithmeticFormulaSumFloorDiv(first_term_, param_value_, num_terms_) ==
    Mul(FromInt(num_terms_ \div 2),
        Add(Mul(FromInt(2), first_term_), Mul(FromInt(num_terms_ - 1), param_value_)))

ArithmeticFormulaSum(first_term_, param_value_, num_terms_) ==
    Mul(Div(FromInt(num_terms_), FromInt(2)),
        Add(Mul(FromInt(2), first_term_), Mul(FromInt(num_terms_ - 1), param_value_)))

\* The division of the r # 1 branch raises ZeroDivisionError on a zero divisor.
GeometricSumRaises(param_value_) ==
    ~NearOne(param_value_) /\ DivRaises(Sub(One, param_value_))

GeometricFormulaSum(first_term_, param_value_, num_terms_) ==
    IF NearOne(param_value_)
    THEN Mul(FromInt(num_terms_), first_term_)
    ELSE Div(Mul(first_term_, Sub(One, Pow(param_value_, num_terms_))),
             Sub(One, param_value_))

\* Tab 4, step 4 of the arithmetic derivation: num_terms * inner_calc / 2.
ArithmeticStep4(first_term_, param_value_, num_terms_) ==
    LET inner_calc == Add(Mul(FromInt(2), first_term_),
                          Mul(FromInt(num_terms_ - 1), param_value_))
    IN Div(Mul(FromInt(num_terms_), inner_calc), FromInt(2))

\* Tab 4, step 4 of the geometric derivation (r # 1 branch):
\* first_term * numerator / denominator.
GeometricStep4(first_term_, param_value_, num_terms_) ==
    LET r_power_n == Pow(param_value_, num_terms_)
        numerator == Sub(One, r_power_n)
        denominator == Sub(One, param_value_)
    IN Div(Mul(first_term_, numerator), denominator)

-----------------------------------------------------------------------------
(* Inputs *)

\* The largest term count of the small input grid.
MaxN == 4

\* The largest magnitude of the integer first terms and steps of the grid.
MaxVal == 2

\* if num_terms > 1000
MaxTerms == 1000

\* min(10, num_terms)
DisplayLimit == 10

Types == {"Arithmetic", "Geometric"}

Half == Rat(1, 2)

\* 1 + 10^-11: within 1e-10 of 1, and not 1.
OnePlusDl == [num |-> <<1, 1>>, den |-> 1]

Values == {FromInt(v) : v \in (-MaxVal)..MaxVal} \cup {Half}

Steps == Values \cup {OnePlusDl}

BoundaryValues == {Zero, One}

\* What st.number_input hands to main() is taken as any integer: the widget's
\* min_value and max_value are enforced outside this program, and main()
\* validates the value itself.
TermCounts == ((-1)..MaxN) \cup {MaxTerms, MaxTerms + 1}

Requests ==
    {q \in [type : Types, a : Values, step : Steps, n : TermCounts] :
        q.n >= MaxTerms => (q.a \in BoundaryValues /\ q.step \in BoundaryValues)}

-----------------------------------------------------------------------------
(* main(): one run of the script per interaction *)

ErrPositive == "Number of terms must be a positive integer."

ErrExceed == "Number of terms cannot exceed 1000."

ErrException == "An error occurred"

NoOutput ==
    [error |-> "", warning |-> FALSE, terms |-> <<>>, step4 |-> <<>>,
     alt_sum |-> <<>>, sum_formula_metric |-> <<>>, sum_addition_metric |-> <<>>,
     sum_of_terms |-> <<>>, formula_sum |-> <<>>, last_term |-> <<>>]

NoCall == [fn |-> "", a |-> Zero, step |-> Zero, n |-> 0, seq |-> <<>>,
           value |-> <<>>, step4 |-> <<>>, raised |-> FALSE]

Init ==
    /\ pc = "idle"
    /\ sequence_type = "Arithmetic"
    /\ first_term = Zero
    /\ common_diff = Zero
    /\ common_ratio = Zero
    /\ num_terms = 0
    /\ sequence = <<>>
    /\ param_value = Zero
    /\ calls = 0
    /\ out = NoOutput
    /\ ret = NoCall

\* The widgets are read; the parameter of the other type is set to 0.
ReadInputs ==
    /\ pc = "idle"
    /\ \E q \in Requests :
        /\ sequence_type' = q.type
        /\ first_term' = q.a
        /\ common_diff' = IF q.type = "Arithmetic" THEN q.step ELSE Zero
        /\ common_ratio' = IF q.type = "Arithmetic" THEN Zero ELSE q.step
        /\ num_terms' = q.n
    /\ sequence' = <<>>
    /\ param_value' = Zero
    /\ calls' = 0
    /\ out' = NoOutput
    /\ pc' = "validate"
    /\ UNCHANGED ret

ValidationErrorNoLower(num_terms_) ==
    IF num_terms_ < 0 THEN ErrPositive
    ELSE IF num_terms_ > MaxTerms THEN ErrExceed
    ELSE ""

ValidationError(num_terms_) ==
    IF num_terms_ <= 0 THEN ErrPositive
    ELSE IF num_terms_ > MaxTerms THEN ErrExceed
    ELSE ""

GenerateSequenceSwapped(sequence_type_, first_term_, common_diff_, common_ratio_, num_terms_) ==
    IF sequence_type_ = "Arithmetic"
    THEN generate_arithmetic_sequence(first_term_, common_ratio_, num_terms_)
    ELSE generate_geometric_sequence(first_term_, common_diff_, num_terms_)

GenerateSequence(sequence_type_, first_term_, common_diff_, common_ratio_, num_terms_) ==
    IF sequence_type_ = "Arithmetic"
    THEN generate_arithmetic_sequence(first_term_, common_diff_, num_terms_)
    ELSE generate_geometric_sequence(first_term_, common_ratio_, num_terms_)

ParamValue(sequence_type_, common_diff_, common_ratio_) ==
    IF sequence_type_ = "Arithmetic" THEN common_diff_ ELSE common_ratio_

\* What the list, table and notation tabs raise: the table's two columns must
\* have one length, and the notation tab indexes sequence[i] below
\* min(10, num_terms) and sequence[-1] beyond it.
ShowRaises(sequence_, num_terms_) ==
    \/ Len(sequence_) # num_terms_
    \/ Len(sequence_) < (IF num_terms_ < DisplayLimit THEN num_terms_ ELSE DisplayLimit)

\* if sequence: the list, table and notation tabs; else: the warning.  Each
\* step gives the output so far and where the run goes on; an exception goes
\* to the handler (st.error) and from there to the information section.
ShowStep(sequence_, num_terms_, o) ==
    IF sequence_ # <<>>
    THEN IF ShowRaises(sequence_, num_terms_)
         THEN [out |-> [o EXCEPT !.terms = <<sequence_>>, !.error = ErrException],
               pc |-> "info"]
         ELSE [out |-> [o EXCEPT !.terms = <<sequence_>>], pc |-> "sums"]
    ELSE [out |-> [o EXCEPT !.warning = TRUE], pc |-> "info"]

\* Tab 4: the derivation of the sum, then the two metrics, both of which show
\* sum_sequence = sum(sequence).
SumTabStep(sequence_type_, first_term_, param_value_, num_terms_, sequence_, o) ==
    LET sum_sequence == Sum(sequence_)
        shown ==
            IF sequence_type_ = "Arithmetic"
            THEN [o EXCEPT
                    !.step4 = <<ArithmeticStep4(first_term_, param_value_, num_terms_)>>,
                    !.alt_sum = <<Div(Mul(FromInt(num_terms_),
                                          Add(first_term_, Last(sequence_))),
                                      FromInt(2))>>]
            ELSE IF NearOne(param_value_)
            THEN o
            ELSE [o EXCEPT
                    !.step4 = <<GeometricStep4(first_term_, param_value_, num_terms_)>>]
    IN IF sequence_type_ # "Arithmetic" /\ GeometricSumRaises(param_value_)
       THEN [out |-> [o EXCEPT !.error = ErrException], pc |-> "info"]
       ELSE [out |-> [shown EXCEPT !.sum_formula_metric = <<sum_sequence>>,
                                   !.sum_addition_metric = <<sum_sequence>>],
             pc |-> "properties"]

\* Sequence Properties: the sum and its formula when num_terms > 1, the last
\* term when num_terms > 0.
PropertiesStep(sequence_type_, first_term_, param_value_, num_terms_, sequence_, o) ==
    LET sums ==
            IF num_terms_ > 1
            THEN [o EXCEPT
                    !.sum_of_terms = <<Sum(sequence_)>>,
                    !.formula_sum =
                        IF sequence_type_ = "Arithmetic"
                        THEN <<ArithmeticFormulaSum(first_term_, param_value_, num_terms_)>>
                        ELSE <<GeometricFormulaSum(first_term_, param_value_, num_terms_)>>]
            ELSE o
    IN IF num_terms_ > 1 /\ sequence_type_ # "Arithmetic"
          /\ GeometricSumRaises(param_value_)
       THEN [out |-> [o EXCEPT !.sum_of_terms = <<Sum(sequence_)>>,
                               !.error = ErrException],
             pc |-> "info"]
       ELSE [out |-> IF num_terms_ > 0
                     THEN [sums EXCEPT !.last_term = <<Last(sequence_)>>]
                     ELSE sums,
             pc |-> "info"]

\* One whole run of the try block of main() on the values of the widgets.
RunMain(sequence_type_, first_term_, common_diff_, common_ratio_, num_terms_) ==
    IF ValidationError(num_terms_) # ""
    THEN [NoOutput EXCEPT !.error = ValidationError(num_terms_)]
    ELSE LET seq == GenerateSequence(sequence_type_, first_term_, common_diff_,
                                     common_ratio_, num_terms_)
             pv == ParamValue(sequence_type_, common_diff_, common_ratio_)
             s1 == ShowStep(seq, num_terms_, NoOutput)
             s2 == IF s1.pc = "sums"
                   THEN SumTabStep(sequence_type_, first_term_, pv, num_terms_, seq, s1.out)
                   ELSE s1
             s3 == IF s2.pc = "properties"
                   THEN PropertiesStep(sequence_type_, first_term_, pv, num_terms_, seq,
                                       s2.out)
                   ELSE s2
         IN s3.out

inputVars == <<sequence_type, first_term, common_diff, common_ratio, num_terms>>

\* Input validation: st.error and return, which ends the run.
Validate ==
    /\ pc = "validate"
    /\ IF ValidationError(num_terms) # ""
       THEN /\ out' = [out EXCEPT !.error = ValidationError(num_terms)]
            /\ pc' = "done"
       ELSE /\ out' = out
            /\ pc' = "generate"
    /\ UNCHANGED <<inputVars, sequence, param_value, calls, ret>>

\* Generate the sequence based on type.
Generate ==
    /\ pc = "generate"
    /\ sequence' = GenerateSequence(sequence_type, first_term, common_diff,
                                    common_ratio, num_terms)
    /\ param_value' = ParamValue(sequence_type, common_diff, common_ratio)
    /\ calls' = calls + 1
    /\ pc' = "show"
    /\ UNCHANGED <<inputVars, out, ret>>

ShowSequence ==
    /\ pc = "show"
    /\ LET s == ShowStep(sequence, num_terms, out)
       IN out' = s.out /\ pc' = s.pc
    /\ UNCHANGED <<inputVars, sequence, param_value, calls, ret>>

SumTab ==
    /\ pc = "sums"
    /\ LET s == SumTabStep(sequence_type, first_term, param_value, num_terms,
                           sequence, out)
       IN out' = s.out /\ pc' = s.pc
    /\ UNCHANGED <<inputVars, sequence, param_value, calls, ret>>

Properties ==
    /\ pc = "properties"
    /\ LET s == PropertiesStep(sequence_type, first_term, param_value, num_terms,
                               sequence, out)
       IN out' = s.out /\ pc' = s.pc
    /\ UNCHANGED <<inputVars, sequence, param_value, calls, ret>>

\* The information section, after the try block; the run ends.
Info ==
    /\ pc = "info"
    /\ pc' = "done"
    /\ UNCHANGED <<inputVars, sequence, param_value, calls, out, ret>>

\* The next interaction reruns the script from the top: nothing of the run
\* before is kept.
Rerun ==
    /\ pc = "done"
    /\ pc' = "idle"
    /\ sequence_type' = "Arithmetic"
    /\ first_term' = Zero
    /\ common_diff' = Zero
    /\ common_ratio' = Zero
    /\ num_terms' = 0
    /\ sequence' = <<>>
    /\ param_value' = Zero
    /\ calls' = 0
    /\ out' = NoOutput
    /\ UNCHANGED ret

Next ==
    \/ ReadInputs
    \/ Validate
    \/ Generate
    \/ ShowSequence
    \/ SumTab
    \/ Properties
    \/ Info
    \/ Rerun

Spec == Init /\ [][Next]_vars

-----------------------------------------------------------------------------
(* The engine's functions applied directly: the arguments are drawn from the
   grid by InitFn, and one action applies each function to them. *)

Calls == {q \in Requests : q.n <= MaxTerms}

InitFn ==
    /\ pc = "call"
    /\ \E q \in Calls :
        /\ sequence_type = q.type
        /\ first_term = q.a
        /\ common_diff = (IF q.type = "Arithmetic" THEN q.step ELSE Zero)
        /\ common_ratio = (IF q.type = "Arithmetic" THEN Zero ELSE q.step)
        /\ num_terms = q.n
    /\ sequence = <<>>
    /\ param_value = Zero
    /\ calls = 0
    /\ out = NoOutput
    /\ ret = NoCall

argVars == <<sequence_type, first_term, common_diff, common_ratio, num_terms,
             sequence, param_value, calls, out>>

CallArithmetic ==
    /\ pc = "call"
    /\ sequence_type = "Arithmetic"
    /\ ret' = [fn |-> "generate_arithmetic_sequence", a |-> first_term,
               step |-> common_diff, n |-> num_terms,
               seq |-> generate_arithmetic_sequence(first_term, common_diff, num_terms),
               value |-> <<>>, step4 |-> <<>>, raised |-> FALSE]
    /\ pc' = "returned"
    /\ UNCHANGED argVars

CallGeometric ==
    /\ pc = "call"
    /\ sequence_type = "Geometric"
    /\ ret' = [fn |-> "generate_geometric_sequence", a |-> first_term,
               step |-> common_ratio, n |-> num_terms,
               seq |-> generate_geometric_sequence(first_term, common_ratio, num_terms),
               value |-> <<>>, step4 |-> <<>>, raised |-> FALSE]
    /\ pc' = "returned"
    /\ UNCHANGED argVars

EvalArithmeticSum ==
    /\ pc = "call"
    /\ sequence_type = "Arithmetic"
    /\ num_terms >= 0
    /\ ret' = [fn |-> "arithmetic_sum", a |-> first_term, step |-> common_diff,
               n |-> num_terms,
               seq |-> generate_arithmetic_sequence(first_term, common_diff, num_terms),
               value |-> <<ArithmeticFormulaSum(first_term, common_diff, num_terms)>>,
               step4 |-> <<ArithmeticStep4(first_term, common_diff, num_terms)>>,
               raised |-> FALSE]
    /\ pc' = "returned"
    /\ UNCHANGED argVars

EvalGeometricSum ==
    /\ pc = "call"
    /\ sequence_type = "Geometric"
    /\ num_terms >= 0
    /\ ret' = [fn |-> "geometric_sum", a |-> first_term, step |-> common_ratio,
               n |-> num_terms,
               seq |-> generate_geometric_sequence(first_term, common_ratio, num_terms),
               value |-> IF GeometricSumRaises(common_ratio) THEN <<>>
                         ELSE <<GeometricFormulaSum(first_term, common_ratio, num_terms)>>,
               step4 |-> IF NearOne(common_ratio) \/ GeometricSumRaises(common_ratio)
                         THEN <<>>
                         ELSE <<GeometricStep4(first_term, common_ratio, num_terms)>>,
               raised |-> GeometricSumRaises(common_ratio)]
    /\ pc' = "returned"
    /\ UNCHANGED argVars

NextFn == CallArithmetic \/ CallGeometric \/ EvalArithmeticSum \/ EvalGeometricSum

SpecFn == InitFn /\ [][NextFn]_vars

-----------------------------------------------------------------------------
(* Properties of the generators and the closed forms (under SpecFn) *)

Generators == {"generate_arithmetic_sequence", "generate_geometric_sequence"}

\* C1: for 1 <= n <= 1000, generate_arithmetic_sequence(a, d, n) holds a + i*d
\* at every 0-based index i in [0, n): so it starts at a and each later element
\* exceeds the one before by d.
C1_ArithmeticTerms ==
    (ret.fn = "generate_arithmetic_sequence" /\ 1 <= ret.n /\ ret.n <= MaxTerms) =>
        \A i \in 0..(ret.n - 1) :
            /\ (i + 1) \in DOMAIN ret.seq
            /\ ret.seq[i + 1] = Add(ret.a, Mul(FromInt(i), ret.step))
            /\ i = 0 => ret.seq[1] = ret.a
            /\ i > 0 => Sub(ret.seq[i + 1], ret.seq[i]) = ret.step

C1_Witness ==
    /\ ret.fn = "generate_arithmetic_sequence"
    /\ ret.a = FromInt(2)
    /\ ret.step = FromInt(-2)
    /\ ret.seq = <<FromInt(2), Zero, FromInt(-2), FromInt(-4)>>

C4_EmptyForNonPositive ==
    (ret.fn \in Generators /\ ret.n <= 0) =>
        /\ ret.seq = <<>>
        /\ Sum(ret.seq) = Zero

C4_Witness ==
    /\ ret.fn = "generate_geometric_sequence"
    /\ ret.n < 0
    /\ ret.a = One
    /\ ret.seq = <<>>

\* C6: for every a, d and n >= 0 the arithmetic closed form
\* n/2 * (2a + (n-1)d), and its tab-4 form n * (2a + (n-1)d) / 2, equal the
\* direct sum of generate_arithmetic_sequence(a, d, n).
C6_ArithmeticSum ==
    ret.fn = "arithmetic_sum" =>
        /\ ret.value = <<Sum(ret.seq)>>
        /\ ret.step4 = <<Sum(ret.seq)>>

C6_Witness ==
    /\ ret.fn = "arithmetic_sum"
    /\ ret.n = 3
    /\ ret.a = One
    /\ ret.step = One
    /\ ret.value = <<FromInt(6)>>

-----------------------------------------------------------------------------
(* Properties of main() (under Spec) *)

Accepted == 1 <= num_terms /\ num_terms <= MaxTerms

AfterValidate == {"generate", "show", "sums", "properties", "info", "done"}

AfterGenerate == {"show", "sums", "properties", "info", "done"}

\* C5: a request whose term count is <= 0 or > 1000 is rejected with a
\* validation error before any generation: the run ends there, no generator is
\* called, and no sequence, sum or last term is put out.
C5_RejectedBeforeGeneration ==
    (pc \in AfterValidate /\ ~Accepted) =>
        /\ pc = "done"
        /\ out.error = (IF num_terms <= 0 THEN ErrPositive ELSE ErrExceed)
        /\ calls = 0
        /\ sequence = <<>>
        /\ [out EXCEPT !.error = ""] = NoOutput

C5_Witness ==
    /\ pc = "done"
    /\ num_terms = MaxTerms + 1
    /\ out.error = ErrExceed
    /\ calls = 0

\* C8 as stated: every accepted request puts out the ordered list of its
\* termCount terms, the last term, the sum by direct addition, and a sum
\* obtained by the closed-form formula.
C8_Original ==
    (pc = "done" /\ Accepted) =>
        /\ out.terms = <<sequence>>
        /\ Len(sequence) = num_terms
        /\ out.last_term = <<Last(sequence)>>
        /\ out.sum_addition_metric = <<Sum(sequence)>>
        /\ (out.step4 # <<>> \/ out.formula_sum # <<>>)

\* C9: the output of a run does not depend on the parameter of the other
\* type: whatever value the common ratio holds in an Arithmetic request, and
\* the common difference in a Geometric one, the sequence and the whole output
\* are the same.
C9_InactiveParameterIgnored ==
    pc = "done" =>
        \A v \in Steps :
            /\ out = RunMain(sequence_type, first_term,
                             IF sequence_type = "Arithmetic" THEN common_diff ELSE v,
                             IF sequence_type = "Arithmetic" THEN v ELSE common_ratio,
                             num_terms)
            /\ Accepted =>
                 sequence = GenerateSequence(sequence_type, first_term,
                             IF sequence_type = "Arithmetic" THEN common_diff ELSE v,
                             IF sequence_type = "Arithmetic" THEN v ELSE common_ratio,
                             num_terms)

C9_Witness ==
    /\ pc = "done"
    /\ sequence_type = "Geometric"
    /\ first_term = One
    /\ common_ratio = FromInt(2)
    /\ common_diff = Zero
    /\ num_terms = 3
    /\ out.terms = <<(<<One, FromInt(2), FromInt(4)>>)>>
    /\ out.formula_sum = <<FromInt(7)>>

=============================================================================
